---- MODULE Spec2Model ----
(***************************************************************************)
(* A model of fontgen (src/main.rs): one run of the command-line tool,     *)
(* from option parsing over the FreeType sampling pass, the metadata       *)
(* builder and the atlas compositor to the write of the atlas file.        *)
(*                                                                         *)
(* f32 values are modelled as reduced fractions <<numerator, denominator>>:*)
(* the quotients of the model are quotients of small integers, which the   *)
(* correctly rounded f32 division maps to distinct values.                 *)
(* The environment (file system, FreeType) is modelled at its boundary:    *)
(* every call may fail, and FreeType keeps ONE internal bitmap that every  *)
(* load/render call overwrites.  The bitmaps it produces have rows >= 0    *)
(* and 0 <= width <= pitch, and rows * pitch bytes.                        *)
(* The fill loop of create_bitmap_image is one step per image row, the     *)
(* sampling loop three steps per code point (load, render, store).         *)
(***************************************************************************)
EXTENDS Integers, Sequences, FiniteSets, TLC

(***************************************************************************)
(* Bounds of the model.                                                    *)
(***************************************************************************)
\* The largest --slot-glyph-size tried (and, plus one, the largest --padding).
MaxSlotGlyphSize == 2
\* The largest bitmap width / row count the modelled fonts produce.
MaxGlyphDim == 2

(***************************************************************************)
(* Program constants.                                                      *)
(***************************************************************************)
AtlasColumns == 16
AtlasRows == 16
GlyphTableLen == 256
FirstCodePoint == 33
EndCodePoint == 256

SampledCodePoints == FirstCodePoint .. (EndCodePoint - 1)

(***************************************************************************)
(* f32 arithmetic: a / b as a reduced fraction (b > 0).                    *)
(***************************************************************************)
Abs(n) == IF n < 0 THEN -n ELSE n

RECURSIVE Gcd(_, _)
Gcd(a, b) == IF b = 0 THEN a ELSE Gcd(b, a % b)

F32Div(a, b) ==
    LET g == Gcd(Abs(a), b)
    IN  <<a \div g, b \div g>>

(***************************************************************************)
(* Paths and the file system.                                              *)
(***************************************************************************)
Path(stem, ext) == [stem |-> stem, ext |-> ext]

\* PathBuf::set_extension
SetExtension(path, ext) == [path EXCEPT !.ext = ext]

OutputPaths == {Path("out", "bmfa"), Path("out", "png")}

\* The paths that may exist before the run: the atlas file, or nothing.
PreExistingPaths == {Path("out", "bmfa")}

InputKinds == {"absent", "dir", "file"}

(***************************************************************************)
(* The rasterizer's fonts: what FreeType produces for a code point.        *)
(* "tight" fonts have pitch = width, "padded" fonts one extra byte per row.*)
(***************************************************************************)
Fonts == {"tight", "padded"}

PitchPad(font) == IF font = "padded" THEN 1 ELSE 0

Coverage(c, r, col) == 1 + ((c + 7 * r + 3 * col) % 255)

FontGlyph(font, c) ==
    LET width == c % (MaxGlyphDim + 1)
        rows  == (c \div (MaxGlyphDim + 1)) % (MaxGlyphDim + 1)
        pitch == width + PitchPad(font)
    IN  [ rows   |-> rows,
          width  |-> width,
          pitch  |-> pitch,
          yMin   |-> (c % 3) - 1,
          buffer |-> [j \in 0 .. (rows * pitch - 1) |->
                        IF j % pitch < width
                        THEN Coverage(c, j \div pitch, j % pitch)
                        ELSE 0] ]

NoBitmap == [rows |-> 0, width |-> 0, pitch |-> 0, yMin |-> 0, buffer |-> <<>>]

(***************************************************************************)
(* Options.                                                                *)
(***************************************************************************)
OriginArgs == {"bottom-left", "top-left", "centre"}

ParseOrigin(st) ==
    IF st = "bottom-left" THEN [ok |-> TRUE, origin |-> "BottomLeft"]
    ELSE IF st = "top-left" THEN [ok |-> TRUE, origin |-> "TopLeft"]
    ELSE [ok |-> FALSE, origin |-> st]

OptError(name) == [kind |-> "OptError", error |-> name]

\* verify_opt without its last check.
VerifyOptNoPaddingCheck(o, files) ==
    IF files.input = "absent" THEN OptError("InputFileDoesNotExist")
    ELSE IF files.input # "file" THEN OptError("InputFileIsNotAFile")
    ELSE IF o.output_path \in files.existing THEN OptError("OutputFileExists")
    ELSE IF ~(o.slot_glyph_size > 0) THEN OptError("SlotGlyphSizeCannotBeZero")
    ELSE [kind |-> "Ok"]

\* verify_opt: "Ok" or the first failing check.
VerifyOpt(o, files) ==
    IF files.input = "absent" THEN OptError("InputFileDoesNotExist")
    ELSE IF files.input # "file" THEN OptError("InputFileIsNotAFile")
    ELSE IF o.output_path \in files.existing THEN OptError("OutputFileExists")
    ELSE IF ~(o.slot_glyph_size > 0) THEN OptError("SlotGlyphSizeCannotBeZero")
    ELSE IF o.padding > o.slot_glyph_size
         THEN OptError("PaddingLargerThanSlotGlyphSize")
    ELSE [kind |-> "Ok"]

(***************************************************************************)
(* AtlasSpec, as run_app builds it.                                        *)
(***************************************************************************)
AtlasSpecNew(origin, width, height, rows, columns, padding, slot_glyph_size, glyph_size) ==
    [ origin          |-> origin,
      width           |-> width,
      height          |-> height,
      rows            |-> rows,
      columns         |-> columns,
      padding         |-> padding,
      slot_glyph_size |-> slot_glyph_size,
      glyph_size      |-> glyph_size ]

RunAppSpec(o) ==
    AtlasSpecNew(o.origin,
                 o.slot_glyph_size * AtlasColumns,
                 o.slot_glyph_size * AtlasRows,
                 AtlasRows, AtlasColumns, o.padding, o.slot_glyph_size,
                 o.slot_glyph_size - o.padding)

AtlasFile(o) == SetExtension(o.output_path, "bmfa")

NoSpec == AtlasSpecNew("None", 0, 0, 0, 0, 0, 0, 0)

(***************************************************************************)
(* The glyph table of sample_typeface.                                     *)
(***************************************************************************)
EmptyGlyphTable ==
    [ rows   |-> [k \in 0 .. (GlyphTableLen - 1) |-> 0],
      width  |-> [k \in 0 .. (GlyphTableLen - 1) |-> 0],
      pitch  |-> [k \in 0 .. (GlyphTableLen - 1) |-> 0],
      y_min  |-> [k \in 0 .. (GlyphTableLen - 1) |-> 0],
      buffer |-> <<>> ]

\* HashMap::insert
MapInsert(m, k, v) ==
    [x \in (DOMAIN m) \cup {k} |-> IF x = k THEN v ELSE m[x]]

\* create_glyph_image: an owned copy of the rasterizer's current bitmap.
CreateGlyphImage(bitmap) ==
    LET rows  == bitmap.rows
        pitch == bitmap.pitch
        zeros == [j \in 0 .. (rows * pitch - 1) |-> 0]
    IN  [data |-> [j \in DOMAIN zeros |-> bitmap.buffer[j]]]

\* An error that drops the code point.
SampleErrorNoCodePoint(stage, code_point) ==
    [kind |-> "SampleTypefaceError", error |-> stage, code_point |-> 0]

SampleError(stage, code_point) ==
    [kind |-> "SampleTypefaceError", error |-> stage, code_point |-> code_point]

AppError(name, cause) == [kind |-> "AppError", error |-> name, cause |-> cause]

NoResult == [kind |-> "None"]

(***************************************************************************)
(* create_bitmap_metadata.                                                 *)
(***************************************************************************)
GlyphMetadataNew(code_point, row, column, width, height, x_min, y_min, y_offset) ==
    [ code_point |-> code_point,
      row        |-> row,
      column     |-> column,
      width      |-> width,
      height     |-> height,
      x_min      |-> x_min,
      y_min      |-> y_min,
      y_offset   |-> y_offset ]

\* The row taken modulo the column count, as line 227 does.
MetadataRowModColumns(order, spec) == order % spec.columns

\* The grid slot recorded in the entry (lines 236-237).
MetadataRow(order, spec) == order \div spec.rows

MetadataColumn(order, spec) == order % spec.columns

\* The locals the normalized corner is computed from (lines 226-227).
MetadataCornerCol(order, spec) == order % spec.columns

MetadataCornerRow(order, spec) == order % spec.columns

MetadataEntry(tab, spec, i) ==
    LET order    == i - 32
        col      == MetadataCornerCol(order, spec)
        row      == MetadataCornerRow(order, spec)
        x_min    == F32Div(col * spec.slot_glyph_size, spec.width)
        y_min    == F32Div(row * spec.slot_glyph_size, spec.height)
        width    == F32Div(tab.width[i] + spec.padding, spec.slot_glyph_size)
        height   == F32Div(tab.rows[i] + spec.padding, spec.slot_glyph_size)
        y_offset == F32Div(-(spec.padding - tab.y_min[i]), spec.slot_glyph_size)
    IN  GlyphMetadataNew(i, MetadataRow(order, spec), MetadataColumn(order, spec),
                         width, height, x_min, y_min, y_offset)

GlyphMetadataSpace ==
    GlyphMetadataNew(32, 0, 0, <<1, 2>>, <<1, 1>>, <<0, 1>>, <<0, 1>>, <<0, 1>>)

\* The map without the entry of the space.
CreateBitmapMetadataNoSpace(tab, spec) ==
    [k \in DOMAIN tab.buffer |-> MetadataEntry(tab, spec, k)]

CreateBitmapMetadata(tab, spec) ==
    LET space == MapInsert(<<>>, 32, GlyphMetadataSpace)
    IN  [k \in (DOMAIN space) \cup (DOMAIN tab.buffer) |->
            IF k \in DOMAIN tab.buffer THEN MetadataEntry(tab, spec, k)
            ELSE space[k]]

(***************************************************************************)
(* create_bitmap_image: the fill loop.                                     *)
(***************************************************************************)
\* The code point whose slot holds pixel (x, y) (lines 255-258).
GlyphIndexAt(spec, x, y) ==
    LET col   == x \div spec.slot_glyph_size
        row   == y \div spec.slot_glyph_size
        order == row * spec.columns + col
    IN  order + 32

XLoc(spec, x) == (x % spec.slot_glyph_size) - (spec.padding \div 2)

YLoc(spec, y) == (y % spec.slot_glyph_size) - (spec.padding \div 2)

\* Line 260.
HasGlyph(glyph_index) == (glyph_index > 32) /\ (glyph_index < 256)

\* The test with the far edges included in the glyph.
OutsideGlyphInclusive(tab, glyph_index, x_loc, y_loc) ==
    \/ x_loc < 0
    \/ y_loc < 0
    \/ x_loc > tab.width[glyph_index]
    \/ y_loc > tab.rows[glyph_index]

\* Lines 267-268.
OutsideGlyph(tab, glyph_index, x_loc, y_loc) ==
    \/ x_loc < 0
    \/ y_loc < 0
    \/ x_loc >= tab.width[glyph_index]
    \/ y_loc >= tab.rows[glyph_index]

\* Line 281.
ByteOrderInGlyph(tab, glyph_index, x_loc, y_loc) ==
    y_loc * tab.width[glyph_index] + x_loc

\* The box test with > for >=: the edge column and row repeat the last ink.
PixelByteInclusiveEdge(tab, spec, x, y) ==
    LET glyph_index == GlyphIndexAt(spec, x, y)
        x_loc       == XLoc(spec, x)
        y_loc       == YLoc(spec, y)
        w           == tab.width[glyph_index]
        r           == tab.rows[glyph_index]
        xc          == IF x_loc >= w THEN w - 1 ELSE x_loc
        yc          == IF y_loc >= r THEN r - 1 ELSE y_loc
    IN  IF HasGlyph(glyph_index)
        THEN IF \/ x_loc < 0 \/ y_loc < 0 \/ x_loc > w \/ y_loc > r
                \/ w = 0 \/ r = 0
             THEN 0
             ELSE tab.buffer[glyph_index].data[
                      ByteOrderInGlyph(tab, glyph_index, xc, yc)]
        ELSE 0

\* The byte written to each of the four channels of pixel (x, y).
PixelByte(tab, spec, x, y) ==
    LET glyph_index == GlyphIndexAt(spec, x, y)
        x_loc       == XLoc(spec, x)
        y_loc       == YLoc(spec, y)
    IN  IF HasGlyph(glyph_index)
        THEN IF OutsideGlyph(tab, glyph_index, x_loc, y_loc)
             THEN 0
             ELSE tab.buffer[glyph_index].data[
                      ByteOrderInGlyph(tab, glyph_index, x_loc, y_loc)]
        ELSE 0

\* The glyph-buffer reads of pixel (x, y), as <<glyph_index, index>>: the
\* index expressions of lines 281-294.
PixelReads(tab, spec, x, y) ==
    LET glyph_index == GlyphIndexAt(spec, x, y)
        x_loc       == XLoc(spec, x)
        y_loc       == YLoc(spec, y)
    IN  IF HasGlyph(glyph_index) /\ ~OutsideGlyph(tab, glyph_index, x_loc, y_loc)
        THEN {<<glyph_index, ByteOrderInGlyph(tab, glyph_index, x_loc, y_loc)>>}
        ELSE {}

\* glyph_tab.buffer[&glyph_index].data[index] is inside the map and the
\* vector; any other index panics.
ReadInBounds(tab, r) ==
    /\ r[1] \in DOMAIN tab.buffer
    /\ r[2] \in DOMAIN tab.buffer[r[1]].data

\* The atlas indices pixel (x, y) writes, from the running index i0.
PixelWrites(i0) == {i0, i0 + 1, i0 + 2, i0 + 3}

\* The state the fill loop starts a row with: the buffer, the running index,
\* and the accesses made in this row.
RowStart(buf, index) ==
    [ buffer   |-> buf,
      index    |-> index,
      reads    |-> {},
      writes   |-> {},
      count    |-> 0,
      panicked |-> FALSE ]

\* One iteration of the inner loop: four writes, four increments.  An
\* index outside its vector panics: the access is attempted, nothing is
\* stored, and the loop ends.
FillPixel(st, tab, spec, x, y) ==
    LET i0     == st.index
        reads  == PixelReads(tab, spec, x, y)
        writes == PixelWrites(i0)
    IN  IF \E r \in reads : ~ReadInBounds(tab, r)
        THEN [st EXCEPT !.reads = @ \cup reads, !.panicked = TRUE]
        ELSE IF ~(writes \subseteq DOMAIN st.buffer)
        THEN [st EXCEPT !.reads = @ \cup reads,
                        !.writes = @ \cup writes,
                        !.count = @ + 4,
                        !.panicked = TRUE]
        ELSE LET b == PixelByte(tab, spec, x, y)
             IN  [ buffer   |-> [st.buffer EXCEPT ![i0] = b, ![i0 + 1] = b,
                                                  ![i0 + 2] = b, ![i0 + 3] = b],
                   index    |-> i0 + 4,
                   reads    |-> st.reads \cup reads,
                   writes   |-> st.writes \cup writes,
                   count    |-> st.count + 4,
                   panicked |-> FALSE ]

\* for x in x..spec.width, at row y.
RECURSIVE FillRowFrom(_, _, _, _, _)
FillRowFrom(st, tab, spec, x, y) ==
    IF x >= spec.width \/ st.panicked THEN st
    ELSE FillRowFrom(FillPixel(st, tab, spec, x, y), tab, spec, x + 1, y)

\* The accesses of the latest row of the fill loop: its glyph-buffer reads,
\* the write index it started from, the atlas indices it wrote and the
\* number of its writes.
NoAccesses == [ reads |-> {}, from |-> 0, written |-> {}, writes |-> 0 ]

\* The accesses of the row that started from the write index `from`.
LogRow(from, st) ==
    [ reads   |-> st.reads,
      from    |-> from,
      written |-> st.writes,
      writes  |-> st.count ]

NewAtlasBuffer(spec) == [k \in 0 .. (spec.width * spec.height * 4 - 1) |-> 0]

(***************************************************************************)
(* create_bitmap_image: the vertical flip (lines 312-325).                 *)
(***************************************************************************)
\* The loop bound without the halving: every pair of rows is swapped twice.
FlipFullHeight(height) == height

FlipHalfHeight(height) == height \div 2

\* The inner loop over col: rows `row` and height - row - 1 change places.
SwapRows(buf, row, width_in_bytes, height) ==
    [k \in DOMAIN buf |->
        LET r == k \div width_in_bytes
        IN  IF r = row
            THEN buf[(height - row - 1) * width_in_bytes + (k % width_in_bytes)]
            ELSE IF r = height - row - 1
            THEN buf[row * width_in_bytes + (k % width_in_bytes)]
            ELSE buf[k]]

RECURSIVE FlipRowsFrom(_, _, _, _, _)
FlipRowsFrom(buf, row, half_height, width_in_bytes, height) ==
    IF row >= half_height THEN buf
    ELSE FlipRowsFrom(SwapRows(buf, row, width_in_bytes, height), row + 1,
                      half_height, width_in_bytes, height)

FlipIfBottomLeft(buf, spec) ==
    IF spec.origin = "BottomLeft"
    THEN FlipRowsFrom(buf, 0, FlipHalfHeight(spec.height), 4 * spec.width,
                      spec.height)
    ELSE buf

(***************************************************************************)
(* The state of one run.                                                   *)
(***************************************************************************)
VARIABLES
    pc,                 \* the position of the run
    argv,               \* the command line: paths, sizes, the origin token
    opt,                \* Opt, once parsed
    files,              \* the file system: the input's kind, the existing paths
    font,               \* the font the input file holds
    ft,                 \* FreeType: calls made, the internal bitmap, the failure
    written,            \* the write calls made: path and whether it existed
    spec,               \* the AtlasSpec of run_app
    i,                  \* the code point being sampled
    glyph_tab,          \* the glyph table of sample_typeface
    glyph_metadata,     \* the map built by create_bitmap_metadata
    atlas_buffer,       \* the pixel buffer of create_bitmap_image
    atlas_buffer_index, \* its write index
    y,                  \* the row the fill loop is at
    fill_log,           \* the reads and writes of its latest row
    result              \* what main returns

vars == <<pc, argv, opt, files, font, ft, written, spec, i, glyph_tab,
          glyph_metadata, atlas_buffer, atlas_buffer_index, y, fill_log,
          result>>

NoOpt == [parsed |-> FALSE]

FtInit ==
    [ calls      |-> 0,         \* rasterizer calls made so far
      pixel_size |-> 0,         \* the height set by set_pixel_sizes
      char       |-> 0,         \* the code point of the internal bitmap
      bitmap     |-> NoBitmap,  \* the single internal bitmap
      failed     |-> <<>> ]     \* <<stage, code point>> of the call that failed

Init ==
    /\ pc = "from_args"
    /\ argv \in [ output_path     : OutputPaths,
                  slot_glyph_size : 0 .. MaxSlotGlyphSize,
                  padding         : 0 .. (MaxSlotGlyphSize + 1),
                  origin          : OriginArgs ]
    /\ opt = NoOpt
    /\ files \in [ input    : InputKinds,
                   existing : SUBSET PreExistingPaths ]
    /\ font \in Fonts
    /\ ft = FtInit
    /\ written = {}
    /\ spec = NoSpec
    /\ i = 0
    /\ glyph_tab = <<>>
    /\ glyph_metadata = <<>>
    /\ atlas_buffer = <<>>
    /\ atlas_buffer_index = 0
    /\ y = 0
    /\ fill_log = NoAccesses
    /\ result = NoResult

Finish(r) ==
    /\ pc' = "done"
    /\ result' = r

\* A rasterizer call: counted, and on failure remembered with its stage.
FtCall(f) == [f EXCEPT !.calls = @ + 1]

FtFail(f, stage, code_point) ==
    [f EXCEPT !.calls = @ + 1, !.failed = <<stage, code_point>>]

(***************************************************************************)
(* main: Opt::from_args, verify_opt, run_app.                              *)
(***************************************************************************)
FromArgs ==
    /\ pc = "from_args"
    /\ LET o == ParseOrigin(argv.origin)
       IN  IF o.ok
           THEN /\ opt' = [ parsed          |-> TRUE,
                            output_path     |-> argv.output_path,
                            slot_glyph_size |-> argv.slot_glyph_size,
                            padding         |-> argv.padding,
                            origin          |-> o.origin ]
                /\ pc' = "verify_opt"
                /\ UNCHANGED result
           ELSE /\ Finish(OptError("InvalidOrigin"))
                /\ UNCHANGED opt
    /\ UNCHANGED <<argv, files, font, ft, written, spec, i, glyph_tab,
                   glyph_metadata, atlas_buffer, atlas_buffer_index, y,
                   fill_log>>

VerifyOptStep ==
    /\ pc = "verify_opt"
    /\ LET r == VerifyOpt(opt, files)
       IN  IF r.kind = "Ok"
           THEN pc' = "library_init" /\ UNCHANGED result
           ELSE Finish(r)
    /\ UNCHANGED <<argv, opt, files, font, ft, written, spec, i, glyph_tab,
                   glyph_metadata, atlas_buffer, atlas_buffer_index, y,
                   fill_log>>

\* Library::init().expect(..)
LibraryInit ==
    /\ pc = "library_init"
    /\ \/ /\ ft' = FtCall(ft)
          /\ pc' = "new_face"
          /\ UNCHANGED result
       \/ /\ ft' = FtFail(ft, "LibraryInit", 0)
          /\ Finish([kind |-> "Panic"])
    /\ UNCHANGED <<argv, opt, files, font, written, spec, i, glyph_tab,
                   glyph_metadata, atlas_buffer, atlas_buffer_index, y,
                   fill_log>>

\* ft.new_face and the AtlasSpec (lines 487-508).
NewFace ==
    /\ pc = "new_face"
    /\ \/ /\ ft' = FtCall(ft)
          /\ spec' = RunAppSpec(opt)
          /\ pc' = "set_pixel_sizes"
          /\ UNCHANGED result
       \/ /\ ft' = FtFail(ft, "NewFace", 0)
          /\ Finish(AppError("CouldNotOpenFontFile", NoResult))
          /\ UNCHANGED spec
    /\ UNCHANGED <<argv, opt, files, font, written, i, glyph_tab,
                   glyph_metadata, atlas_buffer, atlas_buffer_index, y,
                   fill_log>>

(***************************************************************************)
(* sample_typeface.  Every error is wrapped by run_app (lines 509-514).    *)
(***************************************************************************)
SampleFailure(stage, code_point) ==
    Finish(AppError("CouldNotCreateBitmapFont", SampleError(stage, code_point)))

\* Lines 161-174: the tables, then face.set_pixel_sizes(0, glyph_size).
SetPixelSizes ==
    /\ pc = "set_pixel_sizes"
    /\ glyph_tab' = EmptyGlyphTable
    /\ \/ /\ ft' = [FtCall(ft) EXCEPT !.pixel_size = spec.glyph_size]
          /\ i' = FirstCodePoint
          /\ pc' = "load_char"
          /\ UNCHANGED result
       \/ /\ ft' = FtFail(ft, "SetPixelSize", 0)
          /\ SampleFailure("SetPixelSize", 0)
          /\ UNCHANGED i
    /\ UNCHANGED <<argv, opt, files, font, written, spec, glyph_metadata,
                   atlas_buffer, atlas_buffer_index, y,
                   fill_log>>

\* Lines 177-179: face.load_char(i, RENDER) overwrites the internal bitmap.
LoadChar ==
    /\ pc = "load_char"
    /\ \/ /\ ft' = [FtCall(ft) EXCEPT !.char = i, !.bitmap = FontGlyph(font, i)]
          /\ pc' = "render_glyph"
          /\ UNCHANGED result
       \/ /\ ft' = FtFail(ft, "LoadCharacter", i)
          /\ SampleFailure("LoadCharacter", i)
    /\ UNCHANGED <<argv, opt, files, font, written, spec, i, glyph_tab,
                   glyph_metadata, atlas_buffer, atlas_buffer_index, y,
                   fill_log>>

\* Lines 182-186: render_glyph(Normal) renders the loaded glyph again.
RenderGlyph ==
    /\ pc = "render_glyph"
    /\ \/ /\ ft' = [FtCall(ft) EXCEPT !.bitmap = FontGlyph(font, ft.char)]
          /\ pc' = "store_glyph"
          /\ UNCHANGED result
       \/ /\ ft' = FtFail(ft, "RenderCharacter", ft.char)
          /\ SampleFailure("RenderCharacter", i)
    /\ UNCHANGED <<argv, opt, files, font, written, spec, i, glyph_tab,
                   glyph_metadata, atlas_buffer, atlas_buffer_index, y,
                   fill_log>>

\* No copy: every stored image is the rasterizer's internal bitmap.
StoreDimensionsAliased(tab, code_point, bitmap) ==
    [tab EXCEPT !.rows[code_point]  = bitmap.rows,
                !.width[code_point] = bitmap.width,
                !.pitch[code_point] = bitmap.pitch,
                !.buffer = [k \in (DOMAIN @) \cup {code_point} |->
                               CreateGlyphImage(bitmap)]]

\* Lines 189-194: the dimensions and the owned copy of the internal bitmap.
StoreDimensions(tab, code_point, bitmap) ==
    [tab EXCEPT !.rows[code_point]  = bitmap.rows,
                !.width[code_point] = bitmap.width,
                !.pitch[code_point] = bitmap.pitch,
                !.buffer = MapInsert(@, code_point, CreateGlyphImage(bitmap))]

\* Lines 189-208: store glyph i, fetch its bounding box, go on to i + 1.
StoreGlyph ==
    /\ pc = "store_glyph"
    /\ LET stored == StoreDimensions(glyph_tab, i, ft.bitmap)
       IN  \/ /\ ft' = FtCall(ft)
              /\ glyph_tab' = [stored EXCEPT !.y_min[i] = ft.bitmap.yMin]
              /\ i' = i + 1
              /\ pc' = IF i + 1 < EndCodePoint THEN "load_char"
                       ELSE "create_bitmap_metadata"
              /\ UNCHANGED result
           \/ /\ ft' = FtFail(ft, "GetGlyphImage", ft.char)
              /\ glyph_tab' = stored
              /\ SampleFailure("GetGlyphImage", i)
              /\ UNCHANGED i
    /\ UNCHANGED <<argv, opt, files, font, written, spec, glyph_metadata,
                   atlas_buffer, atlas_buffer_index, y,
                   fill_log>>

(***************************************************************************)
(* create_bitmap_atlas after the sampling pass (lines 340-341).            *)
(***************************************************************************)
\* create_bitmap_metadata, then the allocation of create_bitmap_image.
BuildMetadata ==
    /\ pc = "create_bitmap_metadata"
    /\ glyph_metadata' = CreateBitmapMetadata(glyph_tab, spec)
    /\ atlas_buffer' = NewAtlasBuffer(spec)
    /\ atlas_buffer_index' = 0
    /\ y' = 0
    /\ fill_log' = NoAccesses
    /\ pc' = "fill"
    /\ UNCHANGED <<argv, opt, files, font, ft, written, spec, i, glyph_tab,
                   result>>

\* One iteration of `for y in 0..spec.height` (lines 252-310).
FillRow ==
    /\ pc = "fill"
    /\ y < spec.height
    /\ LET st == FillRowFrom(RowStart(atlas_buffer, atlas_buffer_index),
                             glyph_tab, spec, 0, y)
       IN  /\ atlas_buffer' = st.buffer
           /\ atlas_buffer_index' = st.index
           /\ fill_log' = LogRow(atlas_buffer_index, st)
           /\ IF st.panicked
              THEN /\ pc' = "done"
                   /\ result' = [kind |-> "Panic"]
                   /\ y' = y
              ELSE /\ pc' = IF y + 1 < spec.height THEN "fill" ELSE "flip"
                   /\ result' = result
                   /\ y' = y + 1
    /\ UNCHANGED <<argv, opt, files, font, ft, written, spec, i, glyph_tab,
                   glyph_metadata>>

\* Lines 312-329: the flip for a bottom-left origin.
FlipImage ==
    /\ pc = "flip"
    /\ atlas_buffer' = FlipIfBottomLeft(atlas_buffer, spec)
    /\ pc' = "write_to_file"
    /\ UNCHANGED <<argv, opt, files, font, ft, written, spec, i, glyph_tab,
                   glyph_metadata, atlas_buffer_index, y, fill_log,
                   result>>

\* Lines 516-520: bmfa::write_to_file(&atlas_file, &atlas).
WriteToFile ==
    /\ pc = "write_to_file"
    /\ LET atlas_file == AtlasFile(opt)
       IN  \/ /\ written' = written \cup
                     {[path |-> atlas_file,
                       existed |-> atlas_file \in files.existing]}
              /\ files' = [files EXCEPT !.existing = @ \cup {atlas_file}]
              /\ Finish([kind |-> "Ok"])
           \/ /\ Finish(AppError("CouldNotCreateAtlasFile", NoResult))
              /\ UNCHANGED <<written, files>>
    /\ UNCHANGED <<argv, opt, font, ft, spec, i, glyph_tab, glyph_metadata,
                   atlas_buffer, atlas_buffer_index, y,
                   fill_log>>

Next ==
    \/ FromArgs
    \/ VerifyOptStep
    \/ LibraryInit
    \/ NewFace
    \/ SetPixelSizes
    \/ LoadChar
    \/ RenderGlyph
    \/ StoreGlyph
    \/ BuildMetadata
    \/ FillRow
    \/ FlipImage
    \/ WriteToFile

Spec == Init /\ [][Next]_vars

(***************************************************************************)
(* Vocabulary of the claims.                                               *)
(***************************************************************************)
\* The fill loop has ended and the flip has not run.
Filled == pc = "flip"

PixelsX == 0 .. (spec.width - 1)

PixelsY == 0 .. (spec.height - 1)

Channels == 0 .. 3

\* AtlasImage: 4 bytes per pixel, row-major.
ChannelAt(buf, x, yy, ch) == buf[(yy * spec.width + x) * 4 + ch]

Transparent(buf, x, yy) ==
    \A ch \in Channels : ChannelAt(buf, x, yy, ch) = 0

\* The slot-local box of glyph c holds (x_loc, y_loc).
InGlyphBox(c, x_loc, y_loc) ==
    /\ 0 <= x_loc /\ x_loc < glyph_tab.width[c]
    /\ 0 <= y_loc /\ y_loc < glyph_tab.rows[c]

\* The coverage of the pixel at column x_loc of row y_loc of c's bitmap.
SourceCoverage(c, x_loc, y_loc) ==
    glyph_tab.buffer[c].data[y_loc * glyph_tab.pitch[c] + x_loc]

\* C1: before any flip, every pixel inside the box of a sampled glyph has
\* all four channels equal to the coverage of the source pixel at column
\* x_loc of row y_loc of the glyph's bitmap, rows being pitch bytes apart.
C1_PixelIsSourceCoverage ==
    Filled =>
        \A x \in PixelsX, yy \in PixelsY :
            LET c     == GlyphIndexAt(spec, x, yy)
                x_loc == XLoc(spec, x)
                y_loc == YLoc(spec, yy)
            IN  (c \in SampledCodePoints /\ InGlyphBox(c, x_loc, y_loc)) =>
                    \A ch \in Channels :
                        ChannelAt(atlas_buffer, x, yy, ch) =
                            SourceCoverage(c, x_loc, y_loc)

MetadataBuilt ==
    \/ pc \in {"fill", "flip", "write_to_file"}
    \/ pc = "done" /\ result.kind = "Ok"
    \/ pc = "done" /\ result = AppError("CouldNotCreateAtlasFile", NoResult)

\* C2: for every sampled code point the entry's (x_min, y_min) is the
\* normalized corner of the slot (row, column) the entry records, with
\* column = order % grid_columns and row = order / grid_rows.
C2_CornerOfRecordedSlot ==
    MetadataBuilt =>
        \A c \in SampledCodePoints :
            LET order  == c - 32
                column == order % spec.columns
                row    == order \div spec.rows
                m      == glyph_metadata[c]
            IN  /\ m.row = row
                /\ m.column = column
                /\ m.x_min = F32Div(column * spec.slot_glyph_size, spec.width)
                /\ m.y_min = F32Div(row * spec.slot_glyph_size, spec.height)

\* C3: before any flip, a pixel is transparent black whenever its glyph
\* index is not strictly between 32 and 256 or its slot-local coordinates
\* lie outside [0, width) x [0, rows); so also at x_loc = width, y_loc = rows.
C3_TransparentOutsideGlyph ==
    Filled =>
        \A x \in PixelsX, yy \in PixelsY :
            LET glyph_index ==
                    (yy \div spec.slot_glyph_size) * spec.columns
                        + (x \div spec.slot_glyph_size) + 32
                x_loc == (x % spec.slot_glyph_size) - (spec.padding \div 2)
                y_loc == (yy % spec.slot_glyph_size) - (spec.padding \div 2)
            IN  (\/ ~(32 < glyph_index /\ glyph_index < 256)
                 \/ ~InGlyphBox(glyph_index, x_loc, y_loc))
                    => Transparent(atlas_buffer, x, yy)

\* A pixel on the right edge of a glyph of non-zero size (x_loc = width) that
\* is transparent, next to an ink pixel of the last column that is not.
C3_Witness ==
    /\ Filled
    /\ \E x \in PixelsX \ {0}, yy \in PixelsY :
           LET c == GlyphIndexAt(spec, x, yy)
           IN  /\ c \in SampledCodePoints
               /\ GlyphIndexAt(spec, x - 1, yy) = c
               /\ XLoc(spec, x) = glyph_tab.width[c]
               /\ InGlyphBox(c, XLoc(spec, x) - 1, YLoc(spec, yy))
               /\ Transparent(atlas_buffer, x, yy)
               /\ ~Transparent(atlas_buffer, x - 1, yy)

\* Row i of the image in the place of row height - 1 - i, for every row.
RowsSwapped(buf) ==
    [k \in DOMAIN buf |->
        buf[(spec.height - 1 - (k \div (4 * spec.width))) * (4 * spec.width)
                + (k % (4 * spec.width))]]

\* The buffer is the image composited with origin top-left from the same
\* glyph table.
IsTopLeftImage(buf) ==
    \A x \in PixelsX, yy \in PixelsY :
        LET b == PixelByte(glyph_tab, [spec EXCEPT !.origin = "TopLeft"], x, yy)
        IN  \A ch \in Channels : ChannelAt(buf, x, yy, ch) = b

\* C4: the image emitted with origin bottom-left is the top-left image with
\* row i and row height - 1 - i swapped; with origin top-left it is emitted
\* unflipped; and flipping the flipped image again restores the original.
C4_FlipLaw ==
    [][pc = "flip" =>
          /\ IsTopLeftImage(atlas_buffer)
          /\ spec.origin = "TopLeft" => atlas_buffer' = atlas_buffer
          /\ spec.origin = "BottomLeft" =>
                /\ atlas_buffer' = RowsSwapped(atlas_buffer)
                /\ FlipIfBottomLeft(atlas_buffer', spec) = atlas_buffer]_vars

\* A bottom-left image that the flip has changed.
C4_Witness ==
    /\ pc = "write_to_file"
    /\ spec.origin = "BottomLeft"
    /\ atlas_buffer # RowsSwapped(atlas_buffer)
    /\ \E k \in DOMAIN atlas_buffer : atlas_buffer[k] # 0

(***************************************************************************)
(* Claims about the run as a whole.                                        *)
(***************************************************************************)
SamplingStages ==
    {"SetPixelSize", "LoadCharacter", "RenderCharacter", "GetGlyphImage"}

PerGlyphStages == {"LoadCharacter", "RenderCharacter", "GetGlyphImage"}

\* The rasterizer has failed in a stage of sample_typeface.
SamplingFailed == ft.failed # <<>> /\ ft.failed[1] \in SamplingStages

\* C5: when a rasterizer stage fails, the run ends with the error tagged with
\* that stage and (per-glyph stages) the code point being sampled; no later
\* code point is sampled, neither metadata nor image is built, no file written.
C5_FailureAbortsRun ==
    SamplingFailed =>
        /\ pc = "done"
        /\ result = AppError("CouldNotCreateBitmapFont",
                             SampleError(ft.failed[1], ft.failed[2]))
        /\ ft.failed[1] \in PerGlyphStages =>
              /\ ft.failed[2] = i
              /\ result.cause.code_point = i
              /\ ft.char <= i
              /\ DOMAIN glyph_tab.buffer \subseteq FirstCodePoint .. i
        /\ glyph_metadata = <<>>
        /\ atlas_buffer = <<>>
        /\ written = {}

\* The render of a code point in the middle of the range has failed.
C5_Witness ==
    /\ pc = "done"
    /\ ft.failed = <<"RenderCharacter", 100>>
    /\ result.kind = "AppError"
    /\ result.cause = SampleError("RenderCharacter", 100)
    /\ DOMAIN glyph_tab.buffer = FirstCodePoint .. 99

InvalidSizes == argv.slot_glyph_size = 0 \/ argv.padding > argv.slot_glyph_size

\* C6: a run with slot_glyph_size = 0 or padding > slot_glyph_size makes no
\* rasterizer call and no file write, never enters run_app, and ends with a
\* configuration error.
C6_InvalidSizesRejectedFirst ==
    InvalidSizes =>
        /\ ft = FtInit
        /\ written = {}
        /\ pc \in {"from_args", "verify_opt", "done"}
        /\ pc = "done" => result.kind = "OptError"

\* Everything else being valid, padding > slot_glyph_size has been rejected.
C6_Witness ==
    /\ pc = "done"
    /\ argv.slot_glyph_size > 0
    /\ argv.padding > argv.slot_glyph_size
    /\ result = OptError("PaddingLargerThanSlotGlyphSize")
    /\ ft.calls = 0

\* The atlas file's path existed when the run started.
AtlasFileExisted ==
    /\ SetExtension(argv.output_path, "bmfa") \in files.existing
    /\ \A w \in written : w.existed

\* C7: the path the atlas is written to did not exist when the run started;
\* a file existing there makes the run fail with a configuration error
\* before any rasterizer call, whatever the extension of --output.
C7_OutputMustNotExist ==
    /\ \A w \in written : ~w.existed
    /\ AtlasFileExisted =>
          /\ ft.calls = 0
          /\ pc \in {"from_args", "verify_opt", "done"}
          /\ pc = "done" => result.kind = "OptError"

SamplingSucceeded == pc = "create_bitmap_metadata" \/ MetadataBuilt

\* C8: after a successful sampling pass every stored record (rows, width,
\* pitch, vertical bearing, bitmap bytes) is what the rasterizer produced for
\* that very code point.
C8_RecordsAreOwnGlyph ==
    SamplingSucceeded =>
        /\ DOMAIN glyph_tab.buffer = SampledCodePoints
        /\ \A c \in SampledCodePoints :
              LET g == FontGlyph(font, c)
              IN  /\ glyph_tab.rows[c] = g.rows
                  /\ glyph_tab.width[c] = g.width
                  /\ glyph_tab.pitch[c] = g.pitch
                  /\ glyph_tab.y_min[c] = g.yMin
                  /\ glyph_tab.buffer[c].data = g.buffer

\* The pass has succeeded, the internal bitmap holds the last code point, and
\* an earlier record with a different bitmap is still intact.
C8_Witness ==
    /\ pc = "create_bitmap_metadata"
    /\ ft.char = 255
    /\ ft.bitmap = FontGlyph(font, 255)
    /\ \E c \in SampledCodePoints :
          /\ glyph_tab.buffer[c].data # ft.bitmap.buffer
          /\ glyph_tab.buffer[c].data = FontGlyph(font, c).buffer
          /\ glyph_tab.rows[c] * glyph_tab.pitch[c] > 0

\* C9: when the pipeline succeeds the metadata map has exactly the keys
\* {32} \cup 33..255, 224 of them, and each entry's code point is its key.
C9_MetadataKeys ==
    MetadataBuilt =>
        /\ DOMAIN glyph_metadata = {32} \cup (33 .. 255)
        /\ Cardinality(DOMAIN glyph_metadata) = 224
        /\ \A k \in DOMAIN glyph_metadata : glyph_metadata[k].code_point = k

C9_Witness ==
    /\ pc = "done"
    /\ result.kind = "Ok"
    /\ glyph_metadata[32] = GlyphMetadataSpace
    /\ glyph_metadata[255].code_point = 255

\* C10: the (row, column) of c's metadata entry is the slot in which the
\* compositor draws c: every pixel of that slot has glyph_index = c, and no
\* pixel outside it has.
C10_MetadataSlotIsDrawnSlot ==
    Filled =>
        /\ \A c \in SampledCodePoints :
              LET m == glyph_metadata[c]
              IN  /\ m.column = (c - 32) % spec.columns
                  /\ m.row = (c - 32) \div spec.rows
                  /\ \A dx, dy \in 0 .. (spec.slot_glyph_size - 1) :
                        LET x  == m.column * spec.slot_glyph_size + dx
                            yy == m.row * spec.slot_glyph_size + dy
                        IN  /\ x \in PixelsX
                            /\ yy \in PixelsY
                            /\ GlyphIndexAt(spec, x, yy) = c
        /\ \A x \in PixelsX, yy \in PixelsY :
              LET c == GlyphIndexAt(spec, x, yy)
              IN  c \in SampledCodePoints =>
                     /\ x \div spec.slot_glyph_size = glyph_metadata[c].column
                     /\ yy \div spec.slot_glyph_size = glyph_metadata[c].row

\* 'A' (65) is recorded in row 2, column 1, the slot whose pixels have glyph
\* index 65, and some glyph's ink lies in the slot its entry records.
C10_Witness ==
    /\ Filled
    /\ glyph_metadata[65].row = 2
    /\ glyph_metadata[65].column = 1
    /\ GlyphIndexAt(spec, spec.slot_glyph_size, 2 * spec.slot_glyph_size) = 65
    /\ \E c \in SampledCodePoints :
          \E dx, dy \in 0 .. (spec.slot_glyph_size - 1) :
              ~Transparent(atlas_buffer,
                           glyph_metadata[c].column * spec.slot_glyph_size + dx,
                           glyph_metadata[c].row * spec.slot_glyph_size + dy)

\* The length of the atlas buffer: width * height * 4 bytes.
AtlasBytes == spec.width * spec.height * 4

\* The fill loop is running or has ended.
FillStarted == pc \in {"fill", "flip", "write_to_file"} \/ fill_log # NoAccesses

\* The fill loop ended in a panic on an index outside a vector.
FillPanicked == (result = [kind |-> "Panic"]) /\ (fill_log # NoAccesses)

\* The spec is the validated 16 x 16 grid, and the glyph table is that of a
\* successful sampling pass: no negative size, no width above the pitch, a
\* bitmap of rows * pitch bytes for every code point of 33 .. 255.
ValidatedInputs ==
    /\ spec.slot_glyph_size > 0
    /\ spec.width = AtlasColumns * spec.slot_glyph_size
    /\ spec.height = AtlasRows * spec.slot_glyph_size
    /\ DOMAIN glyph_tab.buffer = SampledCodePoints
    /\ \A c \in SampledCodePoints :
          /\ glyph_tab.rows[c] >= 0
          /\ glyph_tab.width[c] >= 0
          /\ glyph_tab.width[c] <= glyph_tab.pitch[c]
          /\ DOMAIN glyph_tab.buffer[c].data =
                 0 .. (glyph_tab.rows[c] * glyph_tab.pitch[c] - 1)

\* C11: create_bitmap_image never indexes out of bounds.  For the validated
\* spec and the glyph table of a successful sampling pass, after every row of
\* the fill loop: every glyph-buffer read index y_loc * width + x_loc of the
\* row is below that glyph's bitmap length, and every atlas write index of the
\* row is below width * height * 4.  Each atlas byte is written exactly once:
\* row y - 1 writes the bytes from (y - 1) * width * 4 up to y * width * 4,
\* each once and none below the index the row started from.  The loop does
\* not panic, and when it ends the write index is width * height * 4.
C11_FillIndicesInBounds ==
    FillStarted =>
        /\ ValidatedInputs
        /\ ~FillPanicked
        /\ \A r \in fill_log.reads :
              /\ r[1] \in SampledCodePoints
              /\ r[2] >= 0
              /\ r[2] < glyph_tab.rows[r[1]] * glyph_tab.pitch[r[1]]
              /\ ReadInBounds(glyph_tab, r)
        /\ \A k \in fill_log.written : (k >= 0) /\ (k < AtlasBytes)
        /\ Cardinality(fill_log.written) = fill_log.writes
        /\ fill_log.written = fill_log.from .. (atlas_buffer_index - 1)
        /\ atlas_buffer_index = y * spec.width * 4
        /\ (y > 0) => (fill_log.from = (y - 1) * spec.width * 4)
        /\ atlas_buffer_index <= AtlasBytes
        /\ Filled => (atlas_buffer_index = AtlasBytes)

\* A row of the loop over a font whose pitch exceeds its widths, in the
\* largest slot: the row read the last byte the width-stride reaches for a
\* glyph of more than one pixel, and wrote width * 4 atlas bytes.
C11_Witness ==
    /\ pc = "fill"
    /\ y > 0
    /\ ValidatedInputs
    /\ spec.slot_glyph_size = MaxSlotGlyphSize
    /\ \E r \in fill_log.reads :
          /\ glyph_tab.pitch[r[1]] > glyph_tab.width[r[1]]
          /\ r[2] > 0
          /\ r[2] = glyph_tab.rows[r[1]] * glyph_tab.width[r[1]] - 1
    /\ fill_log.writes = spec.width * 4
    /\ (atlas_buffer_index - 1) \in fill_log.written

====
